---- MODULE Spec2Model ----
(***************************************************************************)
(* Model of cardio_backend/app.py: a Flask service that loads a classifier *)
(* and a scaler with joblib at import time and serves GET / and            *)
(* POST /predict.                                                          *)
(*                                                                         *)
(* Numbers are integers.  A probability is an integer count of 10^-6       *)
(* before rounding and an integer count of 10^-4 after round(p, 4).        *)
(***************************************************************************)
EXTENDS Integers, Sequences, FiniteSets, TLC

VARIABLES
    disk,      \* contents of best_model.pkl and scaler.pkl
    mainpc,    \* position of the module-level code (lines 11, 12, 74)
    model,     \* global `model`
    scaler,    \* global `scaler`
    thr,       \* per worker thread: position in predict() and its locals
    log,       \* completed requests with the responses sent, oldest first
    nreq       \* number of requests accepted so far

vars == <<disk, mainpc, model, scaler, thr, log, nreq>>

\* ------------------------------------------------------------------ bounds
NumThreads == 2
MaxRequests == 3

Threads == 1..NumThreads

\* -------------------------------------------------------------- JSON values
Num(n) == [t |-> "num", v |-> n]        \* a JSON number
NumStr(n) == [t |-> "numstr", v |-> n]  \* a JSON string spelling a number, "75"
Text == [t |-> "text", v |-> 0]         \* a JSON string that spells no number, "abc"
Null == [t |-> "null", v |-> 0]         \* JSON null
List == [t |-> "list", v |-> 0]         \* a nested JSON array

\* ------------------------------------------------------------ app.py 25-54
\* The keys read from `data`, in the order the list literal reads them.
FeatureKeysSwapped ==
    <<"anaemia", "age", "creatinine_phosphokinase", "diabetes",
      "ejection_fraction", "high_blood_pressure", "platelets",
      "serum_creatinine", "serum_sodium", "sex", "smoking", "time">>

FeatureKeys ==
    <<"age", "anaemia", "creatinine_phosphokinase", "diabetes",
      "ejection_fraction", "high_blood_pressure", "platelets",
      "serum_creatinine", "serum_sodium", "sex", "smoking", "time">>

\* The column names given to pd.DataFrame.
cols ==
    <<"age", "anaemia", "creatinine_phosphokinase", "diabetes",
      "ejection_fraction", "high_blood_pressure", "platelets",
      "serum_creatinine", "serum_sodium", "sex", "smoking", "time">>

\* ------------------------------------------------------- outcome of a step
\* A step of the handler either yields a value or raises an Exception whose
\* str() is err.
Ok(x) == [ok |-> TRUE, val |-> x, err |-> ""]
Raise(msg) == [ok |-> FALSE, val |-> <<>>, err |-> msg]

\* ----------------------------------------------------- request.get_json()
\* A request body: kind "object" carries the members as written, in order.
HasKey(items, k) == \E i \in 1..Len(items) : items[i][1] = k

\* dict.__setitem__: an existing key keeps its position and takes the new
\* value, a new key goes last.
DictSet(items, k, x) ==
    IF HasKey(items, k)
    THEN [i \in 1..Len(items) |->
            IF items[i][1] = k THEN <<k, x>> ELSE items[i]]
    ELSE Append(items, <<k, x>>)

\* The JSON decoder builds the dict member by member.
RECURSIVE DictFromPairs(_)
DictFromPairs(pairs) ==
    IF pairs = <<>> THEN <<>>
    ELSE LET n == Len(pairs)
             front == DictFromPairs(SubSeq(pairs, 1, n - 1))
         IN DictSet(front, pairs[n][1], pairs[n][2])

GetJson(body) ==
    CASE body.kind = "object" -> Ok([kind |-> "dict", items |-> DictFromPairs(body.pairs)])
      [] body.kind = "null"   -> Ok([kind |-> "None", items |-> <<>>])
      [] body.kind = "array"  -> Ok([kind |-> "list", items |-> <<>>])
      [] body.kind = "number" -> Ok([kind |-> "int", items |-> <<>>])
      [] body.kind = "fraction" -> Ok([kind |-> "float", items |-> <<>>])
      [] body.kind = "true"   -> Ok([kind |-> "bool", items |-> <<>>])
      [] body.kind = "string" -> Ok([kind |-> "str", items |-> <<>>])
      [] OTHER -> Raise("400 Bad Request: Failed to decode JSON object")

\* ---------------------------------------------------------------- data[k]
DictGet(items, k) == items[CHOOSE i \in 1..Len(items) : items[i][1] = k][2]

\* data.get(k) in place of data[k]: an absent key yields None.
GetItemOrNone(data, k) ==
    IF data.kind = "dict" /\ ~HasKey(data.items, k) THEN Ok(Null)
    ELSE IF data.kind = "dict" THEN Ok(DictGet(data.items, k))
    ELSE Raise("object has no attribute 'get'")

\* float(data[k]) in place of data[k]: a string spelling a number is
\* converted by the handler itself.
GetItemFloat(data, k) ==
    IF data.kind = "dict" /\ HasKey(data.items, k)
    THEN LET x == DictGet(data.items, k)
         IN IF x.t \in {"num", "numstr"} THEN Ok(Num(x.v))
            ELSE Raise("could not convert to float")
    ELSE IF data.kind = "dict" THEN Raise("'" \o k \o "'")
    ELSE Raise("object is not subscriptable")

GetItem(data, k) ==
    CASE data.kind = "dict" ->
           IF HasKey(data.items, k) THEN Ok(DictGet(data.items, k))
           ELSE Raise("'" \o k \o "'")
      [] data.kind = "None" -> Raise("'NoneType' object is not subscriptable")
      [] data.kind = "list" -> Raise("list indices must be integers or slices, not str")
      [] data.kind = "int"  -> Raise("'int' object is not subscriptable")
      [] data.kind = "float" -> Raise("'float' object is not subscriptable")
      [] data.kind = "bool" -> Raise("'bool' object is not subscriptable")
      [] OTHER -> Raise("string indices must be integers, not 'str'")

\* The list literal of lines 25-38: the subscripts are evaluated left to
\* right and the first one that raises ends the evaluation.
RECURSIVE ExtractFrom(_, _, _)
ExtractFrom(data, keys, acc) ==
    IF keys = <<>> THEN Ok(acc)
    ELSE LET r == GetItem(data, Head(keys))
         IN IF r.ok THEN ExtractFrom(data, Tail(keys), Append(acc, r.val))
            ELSE r

ExtractByPosition(data) ==
    IF data.kind = "dict" /\ Len(data.items) >= Len(FeatureKeys)
    THEN Ok([i \in 1..Len(FeatureKeys) |-> data.items[i][2]])
    ELSE ExtractFrom(data, FeatureKeys, <<>>)

Extract(data) == ExtractFrom(data, FeatureKeys, <<>>)

\* ------------------------------------------- pd.DataFrame([features], cols)
DataFrame(rows, columns) ==
    IF \A i \in 1..Len(rows) : Len(rows[i]) = Len(columns)
    THEN Ok([columns |-> columns, rows |-> rows])
    ELSE Raise("columns passed do not match the data")

\* ------------------------------------------------- the artifacts on disk
\* best_model.pkl and scaler.pkl are produced elsewhere; the service takes
\* whatever objects they hold.  A scaler centres each column on the value
\* it was fitted with and checks the column names it was fitted with.  A
\* coercing scaler converts every cell with float(), as array validation
\* with a numeric dtype does for object columns: "75" becomes 75.0 and None
\* becomes NaN; a strict one rejects every cell that is not a number.  A
\* classifier is a linear score with a threshold; it may or may not accept
\* NaN.
Missing == [kind |-> "missing"]

ScalerA ==
    [kind |-> "scaler", coerce |-> TRUE, names |-> cols,
     center |-> <<60, 0, 580, 0, 38, 0, 263000, 1, 137, 1, 0, 130>>]
ScalerB ==
    [kind |-> "scaler", coerce |-> FALSE, names |-> cols,
     center |-> <<61, 1, 250, 0, 35, 1, 262000, 2, 136, 0, 1, 115>>]

ModelA ==
    [kind |-> "model", acceptsNaN |-> FALSE, step |-> 1236,
     w |-> <<1, 2, 0, 1, -2, 3, 0, 4, -1, 1, 1, -1>>, b |-> -150]
ModelB ==
    [kind |-> "model", acceptsNaN |-> TRUE, step |-> 750,
     w |-> <<2, 1, 0, 0, -3, 2, 0, 5, -2, 0, 1, -1>>, b |-> -140]

ScalerFiles == {ScalerA, ScalerB, Missing}
ModelFiles == {ModelA, ModelB, Missing}

\* A load wrapped in try/except that carries on without the artifact.
JoblibLoadOrNone(file) == Ok(file)

\* joblib.load(path): the object the file holds; a missing file raises.
JoblibLoad(file) ==
    IF file.kind = "missing"
    THEN Raise("[Errno 2] No such file or directory")
    ELSE Ok(file)

\* ------------------------------------------------- scaler.transform(df)
Cell(x) == [nan |-> FALSE, x |-> x]
NaN == [nan |-> TRUE, x |-> 0]

\* One cell of the frame as a float64.
ToFloat(s, c) ==
    CASE c.t = "num" -> Ok(Cell(c.v))
      [] c.t = "numstr" ->
           IF s.coerce THEN Ok(Cell(c.v))
           ELSE Raise("dtype='numeric' is not compatible with arrays of bytes/strings.")
      [] c.t = "null" ->
           IF s.coerce THEN Ok(NaN)
           ELSE Raise("float() argument must be a string or a number, not 'NoneType'")
      [] c.t = "text" -> Raise("could not convert string to float: 'abc'")
      [] OTHER -> Raise("setting an array element with a sequence.")

ScaleCell(s, i, c) ==
    LET f == ToFloat(s, c)
    IN IF ~f.ok THEN f
       ELSE IF f.val.nan THEN Ok(NaN)
       ELSE Ok(Cell(f.val.x - s.center[i]))

Transform(s, df) ==
    IF df.columns # s.names
    THEN Raise("The feature names should match those that were passed during fit.")
    ELSE LET bad == {<<r, i>> \in (1..Len(df.rows)) \X (1..Len(s.names)) :
                        ~ScaleCell(s, i, df.rows[r][i]).ok}
         IN IF bad # {}
            THEN LET first == CHOOSE p \in bad :
                                 \A q \in bad : p[1] < q[1] \/ (p[1] = q[1] /\ p[2] <= q[2])
                 IN ScaleCell(s, first[2], df.rows[first[1]][first[2]])
            ELSE Ok([r \in 1..Len(df.rows) |->
                       [i \in 1..Len(s.names) |-> ScaleCell(s, i, df.rows[r][i]).val]])

\* The scaler object after a call: transform reads it and leaves it as it
\* was; a fit would centre it on the frame it is given.
ScalerAfterFit(s, df) ==
    [s EXCEPT !.center =
        [i \in 1..Len(s.center) |->
            IF df.rows[1][i].t = "num" THEN df.rows[1][i].v ELSE s.center[i]]]

ScalerAfterTransform(s, df) == s

\* ------------------------------------------ model.predict / predict_proba
RECURSIVE Dot(_, _, _)
Dot(w, x, i) ==
    IF i = 0 THEN 0
    ELSE Dot(w, x, i - 1) + (IF x[i].nan THEN 0 ELSE w[i] * x[i].x)

Score(m, x) == m.b + Dot(m.w, x, Len(m.w))

HasNaN(X) == \E r \in 1..Len(X) : \E i \in 1..Len(X[r]) : X[r][i].nan

Clamp(p) == IF p < 0 THEN 0 ELSE IF p > 1000000 THEN 1000000 ELSE p

\* Probability of class 1 of one row, in 10^-6.
PositiveProba(m, x) == Clamp(500000 + m.step * Score(m, x))

Predict(m, X) ==
    IF HasNaN(X) /\ ~m.acceptsNaN THEN Raise("Input X contains NaN.")
    ELSE Ok([r \in 1..Len(X) |-> IF PositiveProba(m, X[r]) > 500000 THEN 1 ELSE 0])

\* One pair <<P(class 0), P(class 1)>> per row.
PredictProba(m, X) ==
    IF HasNaN(X) /\ ~m.acceptsNaN THEN Raise("Input X contains NaN.")
    ELSE Ok([r \in 1..Len(X) |->
               <<1000000 - PositiveProba(m, X[r]), PositiveProba(m, X[r])>>])

\* model.predict(...)[0] and model.predict_proba(...)[0][1]; sequences
\* here start at 1.
FirstLabel(labels) == labels[1]

ProbaOfSurvival(proba) == proba[1][1]

ProbaOfDeath(proba) == proba[1][2]

\* ------------------------------------------------------------ the response
\* round(float(p), 4).  The float64 held for p * 10^-6 is m * 2^-e with
\* 2^52 <= m < 2^53, m the integer nearest to p * 2^e / 10^6; round() gives
\* the multiple of 10^-4 nearest to that float, which differs from rounding
\* p itself only when p lies halfway between two multiples: the float is
\* then below p, above p, or (p * 2^e a multiple of 10^6) p itself, and only
\* in the last case is the tie real and goes to the even neighbour.

\* The least n with p * 2^n >= 10^6, for 0 < p <= 10^6; e is 52 + n.
RECURSIVE BinaryShift(_, _)
BinaryShift(p, n) == IF p >= 1000000 THEN n ELSE BinaryShift(2 * p, n + 1)

\* (p * 2^e) mod 10^6, by doubling.
RECURSIVE ShiftedMod(_, _)
ShiftedMod(p, e) ==
    IF e = 0 THEN p % 1000000 ELSE ShiftedMod((2 * p) % 1000000, e - 1)

Round4(p) ==
    LET q == p \div 100
        r == p % 100
        rem == ShiftedMod(p, 52 + BinaryShift(p, 0))
    IN IF r # 50 THEN (IF r > 50 THEN q + 1 ELSE q)
       ELSE IF rem = 0 THEN (IF q % 2 = 1 THEN q + 1 ELSE q)
       ELSE IF rem < 500000 THEN q
       ELSE q + 1

JsonifyResult(prediction, probability) ==
    [status |-> 200,
     body |-> [prediction |-> prediction, probability |-> Round4(probability)]]

JsonifyError500(msg) == [status |-> 500, body |-> [error |-> msg]]

JsonifyError(msg) == [status |-> 400, body |-> [error |-> msg]]

JsonifyHome ==
    [status |-> 200,
     body |-> [message |-> "Heart Disease Prediction API is running!"]]

\* ------------------------------------------------------- request bodies
BaseValues == <<75, 0, 582, 0, 20, 1, 265000, 2, 130, 1, 0, 4>>
AltValues == <<50, 1, 582, 1, 60, 0, 263000, 1, 140, 0, 0, 200>>

Members(values) == [i \in 1..Len(values) |-> <<cols[i], Num(values[i])>>]
BaseMembers == Members(BaseValues)
AltMembers == Members(AltValues)

Obj(pairs) == [kind |-> "object", pairs |-> pairs]
Bare(kind) == [kind |-> kind, pairs |-> <<>>]
NotJson == Bare("notjson")
NoBody == Bare("none")

Reverse(q) == [i \in 1..Len(q) |-> q[Len(q) + 1 - i]]
Remove(q, i) == SubSeq(q, 1, i - 1) \o SubSeq(q, i + 1, Len(q))
Replace(q, i, x) == [q EXCEPT ![i] = <<q[i][1], x>>]

\* Values that are not JSON numbers, for the member at position i.
WrongValues(i) == {NumStr(BaseValues[i]), Text, Null, List}

EditedMembers ==
    {BaseMembers, AltMembers, <<>>}
    \cup {Remove(BaseMembers, i) : i \in 1..Len(cols)}
    \cup UNION {{Replace(BaseMembers, i, x) :
                    x \in WrongValues(i) \cup {Num(BaseValues[i] + 1)}} :
                i \in 1..Len(cols)}
    \cup {Append(BaseMembers, <<"extra", x>>) : x \in {Num(1), Text}}
    \cup {Append(BaseMembers, <<cols[i], Num(AltValues[i])>>) : i \in 1..Len(cols)}
    \cup UNION {{Remove(Replace(BaseMembers, j, x), i) : x \in WrongValues(j)} :
                <<i, j>> \in {p \in (1..Len(cols)) \X (1..Len(cols)) : p[1] # p[2]}}

WideBodies ==
    {Obj(q) : q \in EditedMembers}
    \cup {Obj(Reverse(q)) : q \in EditedMembers}
    \cup {NotJson, Bare("null"), Bare("array"), Bare("number"), Bare("fraction"),
          Bare("true"), Bare("string")}

CoreBodies ==
    {Obj(BaseMembers), Obj(AltMembers), Obj(Remove(BaseMembers, 1))}

\* The same request with its members written in another order.
Reorderings(b) ==
    IF b.kind = "object" /\ b.pairs # <<>>
    THEN {b, Obj(Reverse(b.pairs)), Obj(Tail(b.pairs) \o SubSeq(b.pairs, 1, 1))}
    ELSE {b}

\* ------------------------------------------------------------------ state
Unset == [kind |-> "unset"]

\* A thread's record holds the locals of predict() under their names.  Two
\* fields are bookkeeping: calls, the artifact methods called so far for
\* the request, and overlapped, whether another request was in flight
\* during this one.  A log entry keeps them, and the frame given to the
\* scaler, next to the request and its response.

Idle ==
    [pc |-> "idle", body |-> NoBody, data |-> Unset, features |-> Unset,
     df |-> Unset, scaled_features |-> Unset, prediction |-> Unset,
     probability |-> Unset, exc |-> "", calls |-> {}, overlapped |-> FALSE]

InFlight(t) == thr[t].pc # "idle"

\* The server runs each request on a worker thread of its own; which one is
\* immaterial, so a request takes the free thread of least index.
Free(t) == ~InFlight(t) /\ \A u \in Threads : u < t => InFlight(u)

Init ==
    /\ disk \in [model : ModelFiles, scaler : ScalerFiles]
    /\ mainpc = "load_model"
    /\ model = Unset
    /\ scaler = Unset
    /\ thr = [t \in Threads |-> Idle]
    /\ log = <<>>
    /\ nreq = 0

\* ----------------------------------------------------- module-level code
\* Line 11.  An exception here ends the interpreter: nothing catches it.
LoadModel ==
    /\ mainpc = "load_model"
    /\ LET r == JoblibLoad(disk.model)
       IN IF r.ok
          THEN /\ model' = r.val
               /\ mainpc' = "load_scaler"
          ELSE /\ mainpc' = "crashed"
               /\ UNCHANGED model
    /\ UNCHANGED <<disk, scaler, thr, log, nreq>>

\* Line 12.
LoadScaler ==
    /\ mainpc = "load_scaler"
    /\ LET r == JoblibLoad(disk.scaler)
       IN IF r.ok
          THEN /\ scaler' = r.val
               /\ mainpc' = "run"
          ELSE /\ mainpc' = "crashed"
               /\ UNCHANGED scaler
    /\ UNCHANGED <<disk, model, thr, log, nreq>>

\* Lines 73-74: app.run starts the listener.
Run ==
    /\ mainpc = "run"
    /\ mainpc' = "serving"
    /\ UNCHANGED <<disk, model, scaler, thr, log, nreq>>

\* ------------------------------------------------------------- GET /
Home(t) ==
    /\ mainpc = "serving"
    /\ Free(t)
    /\ log' = Append(log, [route |-> "home", body |-> NoBody, resp |-> JsonifyHome,
                           calls |-> {}, df |-> Unset, overlapped |-> FALSE])
    /\ nreq' = nreq + 1
    /\ UNCHANGED <<disk, mainpc, model, scaler, thr>>

\* ------------------------------------------------------- POST /predict
\* The server hands the request to a free worker thread.
Accept(t, b) ==
    /\ mainpc = "serving"
    /\ Free(t)
    /\ LET busy == \E u \in Threads : InFlight(u)
       IN thr' = [u \in Threads |->
                    IF u = t
                    THEN [Idle EXCEPT !.pc = "get_json", !.body = b,
                                      !.overlapped = busy]
                    ELSE IF InFlight(u)
                    THEN [thr[u] EXCEPT !.overlapped = TRUE]
                    ELSE thr[u]]
    /\ nreq' = nreq + 1
    /\ UNCHANGED <<disk, mainpc, model, scaler, log>>

\* What a step leaves in the thread: the value bound to a local and the
\* next line, or the exception and the except clause.
Continue(t, r, field, next) ==
    thr' = [thr EXCEPT ![t] =
              IF r.ok
              THEN [[@ EXCEPT !.pc = next] EXCEPT ![field] = r.val]
              ELSE [@ EXCEPT !.pc = "except", !.exc = r.err]]

\* Line 22.
DoGetJson(t) ==
    /\ thr[t].pc = "get_json"
    /\ Continue(t, GetJson(thr[t].body), "data", "extract")
    /\ UNCHANGED <<disk, mainpc, model, scaler, log, nreq>>

\* Lines 25-38.
DoExtract(t) ==
    /\ thr[t].pc = "extract"
    /\ Continue(t, Extract(thr[t].data), "features", "frame")
    /\ UNCHANGED <<disk, mainpc, model, scaler, log, nreq>>

\* Lines 41-55.
DoFrame(t) ==
    /\ thr[t].pc = "frame"
    /\ Continue(t, DataFrame(<<thr[t].features>>, cols), "df", "scale")
    /\ UNCHANGED <<disk, mainpc, model, scaler, log, nreq>>

\* Line 58.
DoScale(t) ==
    /\ thr[t].pc = "scale"
    /\ LET r == Transform(scaler, thr[t].df)
       IN thr' = [thr EXCEPT ![t] =
                    IF r.ok
                    THEN [@ EXCEPT !.pc = "predict", !.scaled_features = r.val,
                                   !.calls = @ \cup {"transform"}]
                    ELSE [@ EXCEPT !.pc = "except", !.exc = r.err,
                                   !.calls = @ \cup {"transform"}]]
    /\ scaler' = ScalerAfterTransform(scaler, thr[t].df)
    /\ UNCHANGED <<disk, mainpc, model, log, nreq>>

\* Line 61.
DoPredict(t) ==
    /\ thr[t].pc = "predict"
    /\ LET r == Predict(model, thr[t].scaled_features)
       IN thr' = [thr EXCEPT ![t] =
                    IF r.ok
                    THEN [@ EXCEPT !.pc = "predict_proba",
                                   !.prediction = FirstLabel(r.val),
                                   !.calls = @ \cup {"predict"}]
                    ELSE [@ EXCEPT !.pc = "except", !.exc = r.err,
                                   !.calls = @ \cup {"predict"}]]
    /\ UNCHANGED <<disk, mainpc, model, scaler, log, nreq>>

\* Line 62.
DoPredictProba(t) ==
    /\ thr[t].pc = "predict_proba"
    /\ LET r == PredictProba(model, thr[t].scaled_features)
       IN thr' = [thr EXCEPT ![t] =
                    IF r.ok
                    THEN [@ EXCEPT !.pc = "return",
                                   !.probability = ProbaOfDeath(r.val),
                                   !.calls = @ \cup {"predict_proba"}]
                    ELSE [@ EXCEPT !.pc = "except", !.exc = r.err,
                                   !.calls = @ \cup {"predict_proba"}]]
    /\ UNCHANGED <<disk, mainpc, model, scaler, log, nreq>>

Respond(t, resp) ==
    /\ log' = Append(log, [route |-> "predict", body |-> thr[t].body, resp |-> resp,
                           calls |-> thr[t].calls, df |-> thr[t].df,
                           overlapped |-> thr[t].overlapped])
    /\ thr' = [thr EXCEPT ![t] = Idle]

\* Lines 65-68.
DoReturn(t) ==
    /\ thr[t].pc = "return"
    /\ Respond(t, JsonifyResult(thr[t].prediction, thr[t].probability))
    /\ UNCHANGED <<disk, mainpc, model, scaler, nreq>>

\* Lines 70-71.
DoExcept(t) ==
    /\ thr[t].pc = "except"
    /\ Respond(t, JsonifyError(thr[t].exc))
    /\ UNCHANGED <<disk, mainpc, model, scaler, nreq>>

Step(t) ==
    \/ DoGetJson(t)
    \/ DoExtract(t)
    \/ DoFrame(t)
    \/ DoScale(t)
    \/ DoPredict(t)
    \/ DoPredictProba(t)
    \/ DoReturn(t)
    \/ DoExcept(t)

\* Requests from CoreBodies on every worker thread, interleaved line by
\* line.
Next ==
    \/ LoadModel
    \/ LoadScaler
    \/ Run
    \/ \E t \in Threads : nreq < MaxRequests /\ Home(t)
    \/ \E t \in Threads : \E b \in CoreBodies : nreq < MaxRequests /\ Accept(t, b)
    \/ \E t \in Threads : Step(t)

Spec == Init /\ [][Next]_vars

\* One request from WideBodies, then the same request with its members in
\* another order.
NextWide ==
    \/ LoadModel
    \/ LoadScaler
    \/ Run
    \/ \E t \in Threads : nreq = 0 /\ Home(t)
    \/ \E t \in Threads : \E b \in WideBodies : nreq = 0 /\ Accept(t, b)
    \/ /\ Len(log) = 1
       /\ nreq = 1
       /\ \E t \in Threads : \E b \in Reorderings(log[1].body) : Accept(t, b)
    \/ \E t \in Threads : Step(t)

SpecWide == Init /\ [][NextWide]_vars

\* The whole of predict() run by itself on the artifacts of the disk.
PredictAlone(b) ==
    LET j == GetJson(b)
        f == Extract(j.val)
        d == DataFrame(<<f.val>>, cols)
        x == Transform(disk.scaler, d.val)
        y == Predict(disk.model, x.val)
        p == PredictProba(disk.model, x.val)
    IN IF ~j.ok THEN JsonifyError(j.err)
       ELSE IF ~f.ok THEN JsonifyError(f.err)
       ELSE IF ~d.ok THEN JsonifyError(d.err)
       ELSE IF ~x.ok THEN JsonifyError(x.err)
       ELSE IF ~y.ok THEN JsonifyError(y.err)
       ELSE IF ~p.ok THEN JsonifyError(p.err)
       ELSE JsonifyResult(FirstLabel(y.val), ProbaOfDeath(p.val))

\* ================================================================ claims
\* The twelve required keys, as a set and in the stated order.
RequiredOrder ==
    <<"age", "anaemia", "creatinine_phosphokinase", "diabetes",
      "ejection_fraction", "high_blood_pressure", "platelets",
      "serum_creatinine", "serum_sodium", "sex", "smoking", "time">>
RequiredKeys == {RequiredOrder[i] : i \in 1..Len(RequiredOrder)}

PredictEntries == {i \in 1..Len(log) : log[i].route = "predict"}
IsObject(b) == b.kind = "object"
KeysWritten(b) == {b.pairs[i][1] : i \in 1..Len(b.pairs)}

\* The value a JSON object gives a key: that of its last member with the key.
LastValue(b, k) ==
    b.pairs[CHOOSE i \in 1..Len(b.pairs) :
               /\ b.pairs[i][1] = k
               /\ \A j \in (i + 1)..Len(b.pairs) : b.pairs[j][1] # k][2]

HasAllKeys(b) == IsObject(b) /\ RequiredKeys \subseteq KeysWritten(b)
LacksAKey(b) == IsObject(b) /\ ~(RequiredKeys \subseteq KeysWritten(b))
AllNumeric(b) == \A k \in RequiredKeys : LastValue(b, k).t = "num"

\* The request's values for the twelve keys, in the stated order.
RequiredRow(b) == [i \in 1..Len(RequiredOrder) |-> LastValue(b, RequiredOrder[i])]
RequiredFrame(b) == [columns |-> RequiredOrder, rows |-> <<RequiredRow(b)>>]

IsErrorEnvelope(r) ==
    r.status = 400 /\ DOMAIN r.body = {"error"} /\ r.body.error # ""
IsResultEnvelope(r) ==
    r.status = 200 /\ DOMAIN r.body = {"prediction", "probability"}

\* C1: a POST /predict whose JSON object lacks one of the twelve required
\* keys is answered 400 with an `error` key and neither `prediction` nor
\* `probability`, and no call of scaler.transform, model.predict or
\* model.predict_proba is made for it, at any point of its handling.
C1_MissingKeyIs400 ==
    /\ \A i \in PredictEntries :
         LacksAKey(log[i].body) =>
            /\ log[i].resp.status = 400
            /\ "error" \in DOMAIN log[i].resp.body
            /\ "prediction" \notin DOMAIN log[i].resp.body
            /\ "probability" \notin DOMAIN log[i].resp.body
            /\ log[i].calls = {}
    /\ \A t \in Threads :
         InFlight(t) /\ LacksAKey(thr[t].body) =>
            thr[t].calls = {} /\ thr[t].pc \in {"get_json", "extract", "except"}

C1_Witness ==
    \E i \in PredictEntries :
        /\ LacksAKey(log[i].body)
        /\ "time" \notin KeysWritten(log[i].body)
        /\ Len(log[i].body.pairs) = 11
        /\ log[i].resp = [status |-> 400, body |-> [error |-> "'time'"]]

\* C2: a POST /predict with all twelve required fields numeric, for which
\* scaling and inference succeed, is answered 200 with exactly the keys
\* `prediction` and `probability`; prediction is the label (0 or 1) that
\* model.predict gives the scaled record, and probability is the class-1
\* probability model.predict_proba gives that record, within [0,1] and
\* rounded to four decimals.
C2_ValidIs200 ==
    \A i \in PredictEntries :
        LET b == log[i].body
            r == log[i].resp
        IN (HasAllKeys(b) /\ AllNumeric(b)) =>
            LET x == Transform(disk.scaler, RequiredFrame(b))
                y == Predict(disk.model, x.val)
                p == PredictProba(disk.model, x.val)
            IN (x.ok /\ y.ok /\ p.ok) =>
                /\ IsResultEnvelope(r)
                /\ r.body.prediction \in {0, 1}
                /\ r.body.prediction = y.val[1]
                /\ r.body.probability \in 0..10000
                /\ 100 * r.body.probability - p.val[1][2] \in -50..50

C2_Witness ==
    /\ disk = [model |-> ModelA, scaler |-> ScalerB]
    /\ \E i \in PredictEntries :
          /\ log[i].body = Obj(BaseMembers)
          /\ log[i].calls = {"transform", "predict", "predict_proba"}
          /\ log[i].resp = [status |-> 200,
                            body |-> [prediction |-> 1, probability |-> 5111]]

\* C3: whatever the body of a POST /predict and whichever stage fails, the
\* caller gets exactly one response, and it is either 200 with exactly
\* {prediction, probability} or 400 with exactly {error}, the error being
\* the string of the exception raised; a failed stage is not run again.
C3_TwoEnvelopes ==
    /\ \A i \in PredictEntries :
         \/ IsResultEnvelope(log[i].resp)
         \/ /\ IsErrorEnvelope(log[i].resp)
            /\ log[i].body.kind = "notjson" =>
                 log[i].resp.body.error = "400 Bad Request: Failed to decode JSON object"
            /\ log[i].body.kind = "string" =>
                 log[i].resp.body.error = "string indices must be integers, not 'str'"
            /\ LacksAKey(log[i].body) =>
                 \E k \in RequiredKeys \ KeysWritten(log[i].body) :
                     log[i].resp.body.error = "'" \o k \o "'"
    /\ nreq = Len(log) + Cardinality({t \in Threads : InFlight(t)})
    /\ \A t \in Threads :
         thr[t].pc = "except" => thr[t].exc # "" /\ thr[t].prediction = Unset

C3_Witness ==
    \E i \in PredictEntries :
        /\ HasAllKeys(log[i].body)
        /\ log[i].calls = {"transform", "predict"}
        /\ IsErrorEnvelope(log[i].resp)
        /\ log[i].resp.body.error = "Input X contains NaN."

\* A required key holds something that is not a JSON number.
WrongType(b) == HasAllKeys(b) /\ ~AllNumeric(b)

\* C4 as stated: a POST /predict with all twelve keys present and a value
\* of the wrong type in one of them is answered 400 with an `error` key and
\* never 200.
C4_WrongTypeIs400 ==
    \A i \in PredictEntries :
        WrongType(log[i].body) =>
            log[i].resp.status = 400 /\ "error" \in DOMAIN log[i].resp.body

\* C4 amended: with all twelve keys present and a value of the wrong type
\* in one of them, the handler checks no type itself and hands the value to
\* scaler.transform; the answer is 400 with an `error` key exactly when the
\* scaler's transform or the model's inference raises on it, and 200 with
\* the prediction for the converted value when the artifacts accept it (a
\* string spelling a number, or null with a model that takes NaN).
C4_WrongTypeIs400IffArtifactsRaise ==
    \A i \in PredictEntries :
        LET b == log[i].body
            r == log[i].resp
        IN WrongType(b) =>
            LET x == Transform(disk.scaler, RequiredFrame(b))
                raises == ~x.ok \/ ~Predict(disk.model, x.val).ok
                             \/ ~PredictProba(disk.model, x.val).ok
            IN /\ "transform" \in log[i].calls
               /\ raises => IsErrorEnvelope(r)
               /\ ~raises => IsResultEnvelope(r)

C4_Witness ==
    /\ disk.scaler = ScalerA
    /\ \E i \in PredictEntries :
          /\ log[i].body = Obj(Replace(BaseMembers, 1, NumStr(75)))
          /\ WrongType(log[i].body)
          /\ IsResultEnvelope(log[i].resp)
          /\ log[i].resp = PredictAlone(Obj(BaseMembers))

\* C5: the same POST /predict payload sent twice gets the same status and
\* body both times, whatever requests are handled in between.
C5_Idempotent ==
    \A i \in PredictEntries : \A j \in PredictEntries :
        log[i].body = log[j].body => log[i].resp = log[j].resp

C5_Witness ==
    /\ Len(log) = 3
    /\ log[1].route = "predict" /\ log[3].route = "predict"
    /\ log[1].body = Obj(BaseMembers) /\ log[3].body = Obj(BaseMembers)
    /\ IsResultEnvelope(log[3].resp)
    /\ log[2].route = "predict" /\ log[2].body = Obj(AltMembers)
    /\ IsResultEnvelope(log[2].resp)
    /\ log[2].resp # log[3].resp

\* Two JSON objects that give every key the same value.
SameMapping(a, b) ==
    /\ IsObject(a) /\ IsObject(b)
    /\ KeysWritten(a) = KeysWritten(b)
    /\ \A k \in KeysWritten(a) : LastValue(a, k) = LastValue(b, k)

\* C6: two POST /predict bodies that are JSON objects with the same
\* key-to-value mapping, their keys written in different orders, get the
\* same status and body.
C6_OrderIndependent ==
    \A i \in PredictEntries : \A j \in PredictEntries :
        SameMapping(log[i].body, log[j].body) => log[i].resp = log[j].resp

C6_Witness ==
    /\ Len(log) = 2
    /\ log[1].body = Obj(BaseMembers)
    /\ log[2].body = Obj(Reverse(BaseMembers))
    /\ IsResultEnvelope(log[1].resp)
    /\ log[2].resp = log[1].resp

\* C7: once loaded, the model and the scaler stay the objects loaded at
\* start: in every state after any requests, succeeding or failing, each
\* global holds what its file held, and no step of a handler changes them.
C7_ArtifactsImmutable ==
    /\ mainpc \in {"load_scaler", "run", "serving"} => model = disk.model
    /\ mainpc \in {"run", "serving"} => scaler = disk.scaler

C7_Witness ==
    /\ mainpc = "serving"
    /\ model = disk.model /\ scaler = disk.scaler
    /\ \E i \in PredictEntries : \E j \in PredictEntries : \E k \in 1..Len(log) :
          /\ IsResultEnvelope(log[i].resp)
          /\ IsErrorEnvelope(log[j].resp)
          /\ log[k].route = "home"

\* C8: under every interleaving of the lines of requests handled at the
\* same time, each POST /predict gets the response it would get handled
\* alone, and the locals of a request in flight hold what its own payload
\* gives.
C8_NoInterference ==
    /\ \A i \in PredictEntries : log[i].resp = PredictAlone(log[i].body)
    /\ \A t \in Threads :
         thr[t].pc = "return" =>
            JsonifyResult(thr[t].prediction, thr[t].probability)
               = PredictAlone(thr[t].body)

C8_Witness ==
    /\ \E i \in PredictEntries :
          /\ log[i].overlapped
          /\ log[i].body = Obj(BaseMembers)
          /\ IsResultEnvelope(log[i].resp)
    /\ \E t \in Threads :
          /\ thr[t].pc = "predict_proba"
          /\ thr[t].body = Obj(AltMembers)
          /\ thr[t].overlapped

\* C9: the model is loaded, then the scaler, before the listener starts; a
\* failed load ends the process with nothing caught, retried or put in its
\* place, and no request is then ever handled; whenever a request is being
\* handled or has been, both artifacts were loaded from their files.
C9_LoadBeforeServe ==
    /\ (nreq > 0 \/ log # <<>> \/ \E t \in Threads : InFlight(t)) =>
          /\ mainpc = "serving"
          /\ disk.model # Missing /\ disk.scaler # Missing
          /\ model = disk.model /\ scaler = disk.scaler
    /\ scaler # Unset => model # Unset
    /\ disk.model = Missing =>
          mainpc \in {"load_model", "crashed"} /\ model = Unset /\ scaler = Unset
    /\ disk.scaler = Missing =>
          mainpc \in {"load_model", "load_scaler", "crashed"} /\ scaler = Unset
    /\ mainpc = "crashed" => disk.model = Missing \/ disk.scaler = Missing

C9_Witness ==
    /\ mainpc = "crashed"
    /\ disk.model = ModelA /\ model = ModelA
    /\ disk.scaler = Missing /\ scaler = Unset
    /\ nreq = 0

\* C10: the frame given to scaler.transform has one row and the twelve
\* columns in the stated order, the value under column k being the
\* request's value for key k; other keys of the request reach neither the
\* scaler nor the response, which is that of the request cut down to the
\* twelve keys.
Canonical(b) ==
    Obj([i \in 1..Len(RequiredOrder) |->
            <<RequiredOrder[i], LastValue(b, RequiredOrder[i])>>])

FrameAsStated(df, b) ==
    /\ df.columns = RequiredOrder
    /\ Len(df.rows) = 1
    /\ df.rows[1] = RequiredRow(b)

C10_FrameLayout ==
    /\ \A i \in PredictEntries :
         "transform" \in log[i].calls =>
            /\ FrameAsStated(log[i].df, log[i].body)
            /\ log[i].resp = PredictAlone(Canonical(log[i].body))
    /\ \A t \in Threads :
         thr[t].pc \in {"scale", "predict", "predict_proba", "return"} =>
            FrameAsStated(thr[t].df, thr[t].body)

C10_Witness ==
    \E i \in PredictEntries :
        /\ log[i].body = Obj(Reverse(Append(BaseMembers, <<"extra", Text>>)))
        /\ log[i].df = [columns |-> RequiredOrder,
                        rows |-> <<[k \in 1..12 |-> Num(BaseValues[k])]>>]
        /\ IsResultEnvelope(log[i].resp)

====
